---- MODULE Spec2Model ----
(***************************************************************************)
(* The database sync script of src/models.js: the orchestrator main, the   *)
(* concurrency limiter executeInParallel, the export/import path           *)
(* (mongodump / mongorestore subprocesses), the direct transfer path       *)
(* (transferCollectionDirect) and the verifier.                            *)
(*                                                                         *)
(* One action is one run of the control thread between two suspension      *)
(* points (awaits): JavaScript runs every continuation of a settled        *)
(* promise to completion before the next subprocess or network event is    *)
(* delivered.                                                              *)
(***************************************************************************)
EXTENDS Integers, Sequences, FiniteSets, TLC

\* ------------------------------------------------------------------ bounds
\* The model syncs the first NumCollections names of the fixed list.
NumCollections == 3
\* MAX_PARALLEL is drawn from 1..MaxParallel in the orchestrator.
MaxParallel == 3
\* BATCH_SIZE is drawn from 1..MaxBatch.
MaxBatch == 2
\* A source collection holds 0..MaxDocs documents.
MaxDocs == 3
\* The limiter on its own is given 0..MaxTasks tasks ...
MaxTasks == 4
\* ... and a cap from -1..MaxConcurrency.
MaxConcurrency == 5

\* ------------------------------------------------------------- constants
AllCollections ==
    << "contents", "shows", "episodes", "raw-media",
       "VisionularTranscoding", "adminusers", "cmsusers" >>

COLLECTIONS_TO_SYNC == SubSeq(AllCollections, 1, NumCollections)

Collections == { COLLECTIONS_TO_SYNC[k] : k \in 1..Len(COLLECTIONS_TO_SYNC) }

\* The value of the local variable tempDir once setupTempDirectory returned.
TempDump == "./temp-dump"
Unset == "undefined"

\* A document is its _id.  Source documents are 1..M; 0 is a document that
\* only the destination holds before the run.
StaleDoc == 0

NoCollection == [exists |-> FALSE, docs |-> {}]
NoFile == [present |-> FALSE, docs |-> {}]
NoProgress == -1

NoDatabase == [c \in Collections |-> NoCollection]
NoDumpDir == [exists |-> FALSE, files |-> [c \in Collections |-> NoFile]]

VARIABLES
    \* process environment and databases
    config,            \* the environment variables read at lines 24-30
    source,            \* source database: collection -> number of documents
    destBefore,        \* the destination database when the run started
    dest,              \* destination database: collection -> [exists, docs]
    dumpDir,           \* ./temp-dump on disk: [exists, files]
    \* main
    pc,                \* position of main (or "harness" for a unit under test)
    exitCode,          \* -1 while the process runs
    tempDir,           \* main's local variable tempDir
    useTraditionalMethod,
    loopIndex,         \* the index i of the sequential for loops
    \* executeInParallel
    tasks,             \* the deferred tasks: [role, collection]
    maxConcurrency,
    taskState,         \* per task: "pending", "running", "fulfilled", "rejected"
    results,
    executing,
    nextTask,          \* position of the for..of iterator
    limiterPc,         \* "idle", "race", "all", "resolved", "rejected"
    \* executeCommandWithProgress
    child,             \* per task, its subprocess: "none", "running", "exited",
                       \* "killed", "unspawned"
    errors,            \* per task, the error its promise was rejected with
    commands,          \* the commands passed to exec, in order: [role, collection]
    \* transferCollectionDirect
    xferPc,            \* "idle", "drop", "count", "stream", "flush", "done", "failed"
    processedCount,
    totalCount,
    batch,
    cursor,            \* documents the cursor has handed out
    insertCalls,       \* calls of targetCollection.insertMany
    progress,          \* last percentage written, in tenths of a percent
    \* what the run did, for the properties
    opsLog,            \* kinds of external operations performed
    phaseLog,          \* phases started, in order
    consoleLog,        \* facts logged: missing variables, counts, warnings
    raised,            \* the failures raised so far, by stage
    \* the episode-migration script (script.js and its counting revision)
    revision,          \* which revision of the script runs: "script", "counting"
    episodes,          \* the Episode collection, in natural order
    rawMedia,          \* the RawMedia collection: per record, the _id of the
                       \* episode it was created from
    connection,        \* mongoose.connection: "none", "open", "closed"
    migrationPc,       \* position of the script's main
    episodesFound,     \* the lean documents returned by the phase's query
    episodeIndex,      \* the index i of the phase's for loop
    rawMediaId,        \* the id the loop body holds between create and update
    hlsEpisodesFound,
    hlsRawMediaCreated,
    hlsEpisodesUpdated,
    hls265EpisodesFound,
    hls265RawMediaCreated,
    hls265EpisodesUpdated,
    episodeLog,        \* per loop iteration: [phase, id, outcome, rawMediaId]
    mainError          \* TRUE once main's outer catch block has run

envVars == << config, source, destBefore >>
dbVars == << dest, dumpDir >>
mainVars == << pc, exitCode, tempDir, useTraditionalMethod, loopIndex >>
limiterVars ==
    << tasks, maxConcurrency, taskState, results, executing, nextTask, limiterPc >>
runnerVars == << child, errors, commands >>
xferVars ==
    << xferPc, processedCount, totalCount, batch, cursor, insertCalls, progress >>
logVars == << opsLog, phaseLog, consoleLog, raised >>
counterVars ==
    << hlsEpisodesFound, hlsRawMediaCreated, hlsEpisodesUpdated,
       hls265EpisodesFound, hls265RawMediaCreated, hls265EpisodesUpdated >>
migrationVars ==
    << revision, episodes, rawMedia, connection, migrationPc, episodesFound,
       episodeIndex, rawMediaId, counterVars, episodeLog, mainError >>
syncVars == << envVars, dbVars, mainVars, limiterVars, runnerVars, xferVars, logVars >>

vars == << syncVars, migrationVars >>

\* --------------------------------------------------------- configuration
REMOTE_URI == config.REMOTE_URI
LOCAL_URI == config.LOCAL_URI
SKIP_VERIFICATION == config.SKIP_VERIFICATION
USE_PARALLEL == config.USE_PARALLEL
MAX_PARALLEL == config.MAX_PARALLEL
USE_DIRECT_TRANSFER == config.USE_DIRECT_TRANSFER
BATCH_SIZE == config.BATCH_SIZE

\* A connection string is unset, set but not a URL, or a URL.
UriValues == { "unset", "invalid", "valid" }

Configs ==
    [ REMOTE_URI : UriValues,
      LOCAL_URI : UriValues,
      SKIP_VERIFICATION : BOOLEAN,
      USE_PARALLEL : BOOLEAN,
      MAX_PARALLEL : 1..MaxParallel,
      USE_DIRECT_TRANSFER : BOOLEAN,
      BATCH_SIZE : 1..MaxBatch,
      driverInstalled : BOOLEAN ]

\* The configuration of a unit under test: nothing of it is read.
NoConfig ==
    [ REMOTE_URI |-> "valid", LOCAL_URI |-> "valid", SKIP_VERIFICATION |-> TRUE,
      USE_PARALLEL |-> TRUE, MAX_PARALLEL |-> 1, USE_DIRECT_TRANSFER |-> FALSE,
      BATCH_SIZE |-> 1, driverInstalled |-> TRUE ]

\* ---------------------------------------------- executeCommandWithProgress
NoError == [message |-> "none", code |-> "none"]

\* Exit codes of a failing subprocess.
ExitCodes == { "1", "2" }

\* How a subprocess started at line 153 can fail: it exits with a non-zero
\* code, it runs longer than timeoutMs, or it cannot be spawned.
Failures ==
    { [cause |-> "exit", code |-> c] : c \in ExitCodes }
        \cup { [cause |-> "timeout", code |-> "null"],
               [cause |-> "spawn", code |-> "ENOENT"] }

\* An exec that was given no timeout: the subprocess runs on.
ChildAfterBroken(f) ==
    CASE f.cause = "exit" -> "exited"
      [] f.cause = "timeout" -> "running"
      [] OTHER -> "unspawned"

\* exec(command, { timeout: timeoutMs }), line 153: a subprocess that runs
\* longer than timeoutMs is sent the kill signal and ends.
ChildAfter(f) ==
    CASE f.cause = "exit" -> "exited"
      [] f.cause = "timeout" -> "killed"
      [] OTHER -> "unspawned"

\* The event the child object emits: "close" with the exit code, which is
\* null for a subprocess ended by a signal, or "error".
Delivered(f) ==
    IF f.cause = "spawn" THEN [event |-> "error", code |-> f.code]
    ELSE [event |-> "close", code |-> f.code]

\* The handlers of lines 174-195 for an event other than close with code 0:
\* the error the promise is rejected with.
Rejection(e) ==
    IF e.event = "close"
    THEN [message |-> "Command failed with exit code", code |-> e.code]
    ELSE [message |-> "spawn", code |-> e.code]

\* The tasks a step has started, in the order of their start: what it has
\* pushed to results.
Spawned(resOld, resNew) ==
    [j \in 1..(Len(resNew) - Len(resOld)) |-> resNew[Len(resOld) + j]]

\* exec is called for the tasks `started` of taskList, the other
\* subprocesses being as in `base`.
ExecAll(taskList, base, started) ==
    /\ commands' = commands \o [j \in 1..Len(started) |-> taskList[started[j]]]
    /\ child' = [k \in 1..Len(taskList) |->
                    IF \E j \in 1..Len(started) : started[j] = k
                    THEN "running" ELSE base[k]]

\* ------------------------------------------------------ executeInParallel
\* Array.prototype.indexOf: 0-based, -1 when absent.
IndexOf(s, x) ==
    IF \E k \in 1..Len(s) : s[k] = x
    THEN (CHOOSE k \in 1..Len(s) : s[k] = x /\ \A j \in 1..(k - 1) : s[j] # x) - 1
    ELSE -1

\* Array.prototype.splice(start, 1): a negative start counts from the end.
SpliceOne(s, start) ==
    LET from == IF start < 0
                THEN (IF Len(s) + start < 0 THEN 0 ELSE Len(s) + start)
                ELSE (IF start > Len(s) THEN Len(s) ELSE start)
        removed == IF from < Len(s) THEN 1 ELSE 0
    IN  [ k \in 1..(Len(s) - removed) |-> IF k <= from THEN s[k] ELSE s[k + 1] ]

\* Returning the promises without joining them.
PromiseAllBroken(st, res) == "resolved"

\* Promise.all(results), line 218.
PromiseAll(st, res) ==
    IF \E k \in 1..Len(res) : st[res[k]] = "rejected" THEN "rejected"
    ELSE IF \A k \in 1..Len(res) : st[res[k]] = "fulfilled" THEN "resolved"
    ELSE "all"

\* The admission test of line 213.
WindowFullBroken(exe, cap) == Len(exe) > cap

WindowFull(exe, cap) == Len(exe) >= cap

\* A loop that admits tasks in fixed batches: it goes on only when every
\* task in flight has finished, and then starts the next cap tasks together.
LoopFromBroken(n, cap, next, st, res, exe) ==
    IF next > n
    THEN [ taskState |-> st, results |-> res, executing |-> exe,
           nextTask |-> next, limiterPc |-> PromiseAll(st, res) ]
    ELSE IF exe # << >>
    THEN [ taskState |-> st, results |-> res, executing |-> exe,
           nextTask |-> next, limiterPc |-> "race" ]
    ELSE LET room == IF cap < 1 THEN 1 ELSE cap
             k == IF n - next + 1 < room THEN n - next + 1 ELSE room
             started == [j \in 1..k |-> next + j - 1]
             st1 == [j \in 1..Len(st) |->
                        IF next <= j /\ j < next + k THEN "running" ELSE st[j]]
         IN  [ taskState |-> st1, results |-> res \o started, executing |-> started,
               nextTask |-> next + k,
               limiterPc |-> IF WindowFull(started, cap) THEN "race"
                             ELSE PromiseAll(st1, res \o started) ]

\* The for..of loop of lines 204-216 over n tasks from task `next` on, run
\* until it awaits Promise.race (line 214) or leaves the loop for Promise.all
\* (line 218).
RECURSIVE LoopFrom(_, _, _, _, _, _)
LoopFrom(n, cap, next, st, res, exe) ==
    IF next > n
    THEN [ taskState |-> st, results |-> res, executing |-> exe,
           nextTask |-> next, limiterPc |-> PromiseAll(st, res) ]
    ELSE LET st1 == [st EXCEPT ![next] = "running"]
             res1 == Append(res, next)
             exe1 == Append(exe, next)
         IN  IF WindowFull(exe1, cap)
             THEN [ taskState |-> st1, results |-> res1, executing |-> exe1,
                    nextTask |-> next + 1, limiterPc |-> "race" ]
             ELSE LoopFrom(n, cap, next + 1, st1, res1, exe1)

\* A wait that ignores rejections, as Promise.any or Promise.allSettled do.
OnRejectionIgnored(at, st) == at

\* What the awaiting executeInParallel does when one of its promises rejects:
\* Promise.race and Promise.all both reject with the first rejection.
OnRejectionBroken(at, st) ==
    IF at \in {"race", "all"} /\ \A k \in 1..Len(st) : st[k] # "running"
    THEN "rejected" ELSE at

OnRejection(at, st) == IF at \in {"race", "all"} THEN "rejected" ELSE at

InFlight == { k \in 1..Len(tasks) : taskState[k] = "running" }

SetLimiter(l) ==
    /\ taskState' = l.taskState
    /\ results' = l.results
    /\ executing' = l.executing
    /\ nextTask' = l.nextTask
    /\ limiterPc' = l.limiterPc

\* A call of executeInParallel(taskList, cap): lines 200-216 up to the first
\* suspension.
CallExecuteInParallel(taskList, cap) ==
    /\ tasks' = taskList
    /\ maxConcurrency' = cap
    /\ LET st0 == [k \in 1..Len(taskList) |-> "pending"]
       IN  SetLimiter(LoopFrom(Len(taskList), cap, 1, st0, << >>, << >>))
    /\ ExecAll(taskList, [k \in 1..Len(taskList) |-> "none"], results')
    /\ errors' = [k \in 1..Len(taskList) |-> NoError]

\* ------------------------------------------------- subprocesses and files
\* mongodump --collection=c --out=tempDir (lines 249, 443) exiting with 0:
\* the output directory holds the documents of the source collection.
Dumped(c) ==
    [ exists |-> TRUE,
      files |-> [dumpDir.files EXCEPT ![c] = [present |-> TRUE, docs |-> 1..source[c]]] ]

\* mongorestore without --drop: the file is loaded into what is there.
RestoredBroken(c) ==
    [dest EXCEPT ![c] = [exists |-> TRUE,
                         docs |-> dest[c].docs \cup dumpDir.files[c].docs]]

\* mongorestore --collection=c --drop <file> (lines 309, 479) exiting with 0:
\* the destination collection is dropped and loaded from the file.
Restored(c) ==
    [dest EXCEPT ![c] = [exists |-> TRUE, docs |-> dumpDir.files[c].docs]]

\* mongorestore cannot exit with 0 without its input file.
CanSucceed(t) ==
    t.role = "restore" => dumpDir.exists /\ dumpDir.files[t.collection].present

\* The effect of a subprocess that exited with code 0.
Completed(t) ==
    CASE t.role = "dump" -> dumpDir' = Dumped(t.collection) /\ UNCHANGED dest
      [] t.role = "restore" -> dest' = Restored(t.collection) /\ UNCHANGED dumpDir
      [] OTHER -> UNCHANGED dbVars

\* The effect of a subprocess that failed (non-zero exit, timeout, spawn
\* error): a restore may already have dropped the destination collection.
Failed(t) ==
    CASE t.role = "restore" ->
            /\ \E d \in {dest[t.collection], [exists |-> TRUE, docs |-> {}]} :
                  dest' = [dest EXCEPT ![t.collection] = d]
            /\ UNCHANGED dumpDir
      [] OTHER -> UNCHANGED dbVars

\* An exit whose code the process.exit(0) of line 679 overrides.
ExitBroken(code) ==
    /\ pc' = "exited"
    /\ exitCode' = 0

\* process.exit(code).
Exit(code) ==
    /\ pc' = "exited"
    /\ exitCode' = code

\* The catch block of main, lines 656-662: process.exit(1) ends the process
\* there, before control reaches the finally block of lines 663-680.
MainCatch(stage) ==
    /\ Exit(1)
    /\ raised' = raised \cup {stage}
    /\ phaseLog' = Append(phaseLog, "Failed")
    /\ UNCHANGED << tempDir, useTraditionalMethod, loopIndex, opsLog, consoleLog >>

\* ------------------------------------------- executeInParallel: the steps
\* A task started by executeInParallel fulfils: the then-callback of lines
\* 205-208 removes its promise from executing; an executeInParallel waiting
\* in Promise.race goes on with the loop.
TaskFulfils(i) ==
    /\ pc \in {"harness", "dump", "restore"}
    /\ limiterPc \in {"race", "all", "rejected"}
    /\ taskState[i] = "running"
    /\ CanSucceed(tasks[i])
    /\ LET st1 == [taskState EXCEPT ![i] = "fulfilled"]
           exe1 == SpliceOne(executing, IndexOf(executing, i))
       IN  IF limiterPc = "race"
           THEN SetLimiter(LoopFrom(Len(tasks), maxConcurrency, nextTask,
                                    st1, results, exe1))
           ELSE SetLimiter([ taskState |-> st1, results |-> results,
                             executing |-> exe1, nextTask |-> nextTask,
                             limiterPc |-> IF limiterPc = "all"
                                           THEN PromiseAll(st1, results)
                                           ELSE limiterPc ])
    /\ ExecAll(tasks, [child EXCEPT ![i] = "exited"], Spawned(results, results'))
    /\ Completed(tasks[i])
    /\ UNCHANGED << tasks, maxConcurrency, errors, envVars, mainVars, xferVars, logVars >>
    /\ UNCHANGED migrationVars

\* A task started by executeInParallel rejects: its promise stays in
\* executing (line 205 has no rejection handler), and an executeInParallel
\* waiting in Promise.race or Promise.all rejects; its caller rethrows (lines
\* 237-240, 288-291) into the catch block of main.
TaskRejects(i) ==
    /\ pc \in {"harness", "dump", "restore"}
    /\ limiterPc \in {"race", "all", "rejected"}
    /\ taskState[i] = "running"
    /\ taskState' = [taskState EXCEPT ![i] = "rejected"]
    /\ limiterPc' = OnRejection(limiterPc, taskState')
    /\ \E f \in Failures :
          /\ child' = [child EXCEPT ![i] = ChildAfter(f)]
          /\ errors' = [errors EXCEPT ![i] = Rejection(Delivered(f))]
    /\ Failed(tasks[i])
    /\ IF pc # "harness" /\ limiterPc' = "rejected"
       THEN MainCatch(pc)
       ELSE UNCHANGED << mainVars, logVars >>
    /\ UNCHANGED << tasks, maxConcurrency, results, executing, nextTask, commands,
                    envVars, xferVars >>
    /\ UNCHANGED migrationVars

\* ------------------------------------------------ transferCollectionDirect
Range(s) == { s[k] : k \in 1..Len(s) }

\* The documents of a source collection of m documents, in cursor order.
SourceDocs(m) == [k \in 1..m |-> k]

\* The batch test of line 404.
BatchFullBroken(b, size) == Len(b) > size

BatchFull(b, size) == Len(b) >= size

\* The for await loop of lines 401-415 from the cursor position `pos` of a
\* collection of m documents, run until a batch is full (line 404) or the
\* cursor is exhausted.
RECURSIVE ReadUntilFull(_, _, _, _)
ReadUntilFull(b, pos, m, size) ==
    IF pos >= m
    THEN [batch |-> b, cursor |-> pos, full |-> FALSE]
    ELSE LET b1 == Append(b, SourceDocs(m)[pos + 1])
         IN  IF BatchFull(b1, size)
             THEN [batch |-> b1, cursor |-> pos + 1, full |-> TRUE]
             ELSE ReadUntilFull(b1, pos + 1, m, size)

\* A percentage cut after its first decimal.
ToFixed1Broken(processed, total) == (processed * 1000) \div total

\* ((processedCount / totalCount) * 100).toFixed(1), line 408, in tenths of a
\* percent: toFixed rounds to the nearest tenth.
ToFixed1(processed, total) == (processed * 2000 + total) \div (2 * total)

\* A loop that goes through the list from its end.
CurrentBroken == COLLECTIONS_TO_SYNC[Len(COLLECTIONS_TO_SYNC) + 1 - loopIndex]

\* The collection transferCollectionDirect works on.
Current == COLLECTIONS_TO_SYNC[loopIndex]

\* insertMany(docs, {ordered: false}): every document whose _id the
\* collection does not hold is inserted; a duplicate _id makes the call fail
\* after the others were written.
Inserted(c, docs) ==
    [dest EXCEPT ![c] = [exists |-> TRUE, docs |-> dest[c].docs \cup Range(docs)]]

InsertSucceeds(c, docs, reachable) ==
    reachable /\ Range(docs) \cap dest[c].docs = {}

Line(kind, what) == [kind |-> kind, what |-> what]

\* A main that verifies whatever SKIP_VERIFICATION says.
AfterTransferBroken ==
    /\ pc' = "verify"
    /\ loopIndex' = 1
    /\ phaseLog' = Append(phaseLog, "Verifying")

\* Where main goes once the transfer is complete: lines 620-629.
AfterTransfer ==
    /\ pc' = IF SKIP_VERIFICATION THEN "finally" ELSE "verify"
    /\ loopIndex' = 1
    /\ phaseLog' = IF SKIP_VERIFICATION THEN phaseLog ELSE Append(phaseLog, "Verifying")

\* A handler that logs the fallback and leaves the flag as it was.
FallbackRecoveryBroken == useTraditionalMethod

\* main's handler of lines 580-587 for the error directDatabaseTransfer
\* throws at line 374: the value given to useTraditionalMethod.
FallbackRecovery == TRUE

\* A catch block that takes every failure for a missing driver.
FallsBackBroken(code) == TRUE

\* The test of line 369 on the error caught by directDatabaseTransfer.
FallsBack(code) == code = "MODULE_NOT_FOUND"

\* An error with this code is thrown inside the try block of
\* directDatabaseTransfer, after the operations ops: the catch block of lines
\* 368-377 turns a missing driver into FALLBACK_TO_TRADITIONAL, for which
\* main (lines 580-590) sets useTraditionalMethod and goes on at line 590,
\* and rethrows any other error, which main rethrows (line 585) into its
\* catch block.
DirectThrows(code, ops) ==
    /\ opsLog' = opsLog \cup ops
    /\ UNCHANGED tempDir
    /\ IF FallsBack(code)
       THEN /\ useTraditionalMethod' = FallbackRecovery
            /\ IF useTraditionalMethod'
               THEN /\ pc' = "setup"
                    /\ phaseLog' = Append(phaseLog, "ExportRestore")
                    /\ UNCHANGED loopIndex
               ELSE AfterTransfer
            /\ raised' = raised \cup {"fallback"}
            /\ consoleLog' = consoleLog \cup {Line("fallback", {})}
            /\ UNCHANGED exitCode
       ELSE /\ Exit(1)
            /\ raised' = raised \cup {"direct"}
            /\ phaseLog' = Append(phaseLog, "Failed")
            /\ UNCHANGED << useTraditionalMethod, loopIndex, consoleLog >>

\* An exception leaves transferCollectionDirect and reaches the catch block
\* of directDatabaseTransfer.
TransferThrows ==
    /\ xferPc' = "failed"
    /\ IF pc = "harness"
       THEN UNCHANGED << mainVars, logVars >>
       ELSE DirectThrows("MongoError", {})

\* Lines 381-390 and 392: the call, and the drop of the target collection,
\* whose every error is swallowed.
DropTarget ==
    /\ pc \in {"harness", "transfer"}
    /\ xferPc = "drop"
    /\ \E dropped \in BOOLEAN :
          dest' = IF dropped THEN [dest EXCEPT ![Current] = NoCollection] ELSE dest
    /\ xferPc' = "count"
    /\ processedCount' = 0
    /\ UNCHANGED << totalCount, batch, cursor, insertCalls, progress,
                    dumpDir, envVars, mainVars, limiterVars, runnerVars, logVars >>
    /\ UNCHANGED migrationVars

\* Lines 393-399: countDocuments on the source, then the cursor is opened.
CountDocuments ==
    /\ pc \in {"harness", "transfer"}
    /\ xferPc = "count"
    /\ \E ok \in BOOLEAN :
          IF ok
          THEN /\ totalCount' = source[Current]
               /\ xferPc' = "stream"
               /\ batch' = << >>
               /\ UNCHANGED << mainVars, logVars >>
          ELSE /\ TransferThrows
               /\ UNCHANGED << totalCount, batch >>
    /\ UNCHANGED << processedCount, cursor, insertCalls, progress,
                    dbVars, envVars, limiterVars, runnerVars >>
    /\ UNCHANGED migrationVars

\* Lines 401-415: documents are read into the batch until it is full, the
\* batch is inserted and the progress written; or the cursor ends.
StreamBatch ==
    /\ pc \in {"harness", "transfer"}
    /\ xferPc = "stream"
    /\ LET r == ReadUntilFull(batch, cursor, source[Current], BATCH_SIZE)
       IN  IF r.full
           THEN \E reachable \in BOOLEAN :
                  /\ insertCalls' = insertCalls + 1
                  /\ dest' = IF reachable THEN Inserted(Current, r.batch) ELSE dest
                  /\ cursor' = r.cursor
                  /\ IF InsertSucceeds(Current, r.batch, reachable)
                     THEN /\ processedCount' = processedCount + Len(r.batch)
                          /\ progress' = ToFixed1(processedCount', totalCount)
                          /\ batch' = << >>
                          /\ xferPc' = "stream"
                          /\ UNCHANGED << mainVars, logVars >>
                     ELSE /\ batch' = r.batch
                          /\ TransferThrows
                          /\ UNCHANGED << processedCount, progress >>
           ELSE /\ batch' = r.batch
                /\ cursor' = r.cursor
                /\ xferPc' = "flush"
                /\ UNCHANGED << processedCount, insertCalls, progress, dest,
                                mainVars, logVars >>
    /\ UNCHANGED << totalCount, dumpDir, envVars, limiterVars, runnerVars >>
    /\ UNCHANGED migrationVars

\* Lines 417-425: the remaining documents are inserted.
FlushRemainder ==
    /\ pc \in {"harness", "transfer"}
    /\ xferPc = "flush"
    /\ IF Len(batch) > 0
       THEN \E reachable \in BOOLEAN :
              /\ insertCalls' = insertCalls + 1
              /\ dest' = IF reachable THEN Inserted(Current, batch) ELSE dest
              /\ IF InsertSucceeds(Current, batch, reachable)
                 THEN /\ processedCount' = processedCount + Len(batch)
                      /\ xferPc' = "done"
                      /\ UNCHANGED << mainVars, logVars >>
                 ELSE /\ TransferThrows
                      /\ UNCHANGED processedCount
       ELSE /\ xferPc' = "done"
            /\ UNCHANGED << processedCount, insertCalls, dest, mainVars, logVars >>
    /\ UNCHANGED << totalCount, batch, cursor, progress,
                    dumpDir, envVars, limiterVars, runnerVars >>
    /\ UNCHANGED migrationVars

\* ------------------------------------------------------------------ main
\* validateConfig, lines 72-100: the names pushed to missingVars.
MissingVarsBroken ==
    IF REMOTE_URI = "unset" THEN {"REMOTE_URI"} ELSE {}

MissingVars ==
    (IF REMOTE_URI = "unset" THEN {"REMOTE_URI"} ELSE {})
        \cup (IF LOCAL_URI = "unset" THEN {"LOCAL_URI"} ELSE {})

\* extractDatabaseFromURI, lines 61-69: new URL(uri) throws unless uri is a URL.
ExtractThrows == REMOTE_URI # "valid" \/ LOCAL_URI # "valid"

\* Lines 567-573, with validateConfig: a missing variable is logged and ends
\* the process with code 1 (line 89); a string that is no URL throws into the
\* catch block of main.
Validate ==
    /\ pc = "main"
    /\ IF MissingVars # {}
       THEN /\ consoleLog' = consoleLog \cup {Line("missing", MissingVars)}
            /\ Exit(1)
            /\ raised' = raised \cup {"config"}
            /\ phaseLog' = Append(phaseLog, "Failed")
            /\ UNCHANGED << tempDir, useTraditionalMethod, loopIndex, opsLog >>
       ELSE IF ExtractThrows
       THEN MainCatch("config")
       ELSE /\ useTraditionalMethod' = ~USE_DIRECT_TRANSFER
            /\ pc' = IF USE_DIRECT_TRANSFER THEN "direct" ELSE "setup"
            /\ phaseLog' = Append(phaseLog, IF USE_DIRECT_TRANSFER
                                            THEN "DirectTransfer" ELSE "ExportRestore")
            /\ UNCHANGED << exitCode, tempDir, loopIndex, opsLog, consoleLog, raised >>
    /\ UNCHANGED << envVars, dbVars, limiterVars, runnerVars, xferVars >>
    /\ UNCHANGED migrationVars

\* Lines 334-335: require("mongodb") throws, the driver is not installed.
DirectFallback ==
    /\ pc = "direct"
    /\ ~config.driverInstalled
    /\ DirectThrows("MODULE_NOT_FOUND", {})
    /\ UNCHANGED << envVars, dbVars, limiterVars, runnerVars, xferVars >>
    /\ UNCHANGED migrationVars

\* The local variables of a fresh call of transferCollectionDirect.
FreshTransfer ==
    /\ xferPc' = "drop"
    /\ processedCount' = 0
    /\ totalCount' = 0
    /\ batch' = << >>
    /\ cursor' = 0
    /\ insertCalls' = 0
    /\ progress' = NoProgress

\* Lines 335-354: the driver is loaded, both clients connect and the loop
\* calls transferCollectionDirect for the first collection.
DirectConnect ==
    /\ pc = "direct"
    /\ config.driverInstalled
    /\ opsLog' = opsLog \cup {"connect"}
    /\ \E connected \in BOOLEAN :
          IF connected
          THEN /\ pc' = "transfer"
               /\ loopIndex' = 1
               /\ FreshTransfer
               /\ UNCHANGED << exitCode, tempDir, useTraditionalMethod,
                               phaseLog, consoleLog, raised >>
          ELSE /\ DirectThrows("MongoError", {"connect"})
               /\ UNCHANGED xferVars
    /\ UNCHANGED << envVars, dbVars, limiterVars, runnerVars >>
    /\ UNCHANGED migrationVars

\* Lines 346-360: the loop of directDatabaseTransfer goes to the next
\* collection.
DirectNext ==
    /\ pc = "transfer"
    /\ xferPc = "done"
    /\ loopIndex < Len(COLLECTIONS_TO_SYNC)
    /\ loopIndex' = loopIndex + 1
    /\ FreshTransfer
    /\ UNCHANGED << pc, exitCode, tempDir, useTraditionalMethod,
                    envVars, dbVars, limiterVars, runnerVars, logVars >>
    /\ UNCHANGED migrationVars

\* Lines 362-367: after the last collection both clients are closed.
DirectClose ==
    /\ pc = "transfer"
    /\ xferPc = "done"
    /\ loopIndex >= Len(COLLECTIONS_TO_SYNC)
    /\ \E closed \in BOOLEAN :
          IF closed
          THEN /\ AfterTransfer
               /\ UNCHANGED << exitCode, tempDir, useTraditionalMethod,
                               opsLog, consoleLog, raised >>
          ELSE DirectThrows("MongoError", {})
    /\ UNCHANGED << envVars, dbVars, limiterVars, runnerVars, xferVars >>
    /\ UNCHANGED migrationVars

\* setupTempDirectory, lines 500-520, and line 596: an existing directory is
\* removed; a failure of fs.access or of fs.rm is swallowed (lines 510-512).
\* The directory itself is not created here: mongodump creates it.
SetupTempDirectory ==
    /\ pc = "setup"
    /\ opsLog' = opsLog \cup {"dir"}
    /\ \E removed \in BOOLEAN :
          dumpDir' = IF dumpDir.exists /\ removed THEN NoDumpDir ELSE dumpDir
    /\ tempDir' = TempDump
    /\ pc' = "export"
    /\ UNCHANGED << dest, exitCode, useTraditionalMethod, loopIndex,
                    phaseLog, consoleLog, raised, envVars, limiterVars, runnerVars, xferVars >>
    /\ UNCHANGED migrationVars

\* A task list that names the first collection a second time.
TasksOfBroken(role) ==
    [k \in 1..(Len(COLLECTIONS_TO_SYNC) + 1) |->
        [role |-> role,
         collection |-> COLLECTIONS_TO_SYNC[IF k > Len(COLLECTIONS_TO_SYNC) THEN 1 ELSE k]]]

\* The task lists of lines 227-230 and 272-281, one task per collection.
TasksOf(role) ==
    [k \in 1..Len(COLLECTIONS_TO_SYNC) |->
        [role |-> role, collection |-> COLLECTIONS_TO_SYNC[k]]]

\* Loops that do not await the subprocess they started.
SequentialAtBroken(k, n) ==
    [j \in 1..n |-> IF j < k THEN "fulfilled" ELSE "running"]

\* The sequential loops of lines 434-456 and 469-492 at collection k: its
\* subprocess runs, the later ones are not started.
SequentialAt(k, n) ==
    [j \in 1..n |-> IF j < k THEN "fulfilled" ELSE IF j = k THEN "running" ELSE "pending"]

\* Lines 598-616: a phase (dump or restore) starts, through
\* executeInParallel or through the sequential loop.
StartPhase(role) ==
    /\ opsLog' = opsLog \cup {"subprocess"}
    /\ IF USE_PARALLEL
       THEN /\ CallExecuteInParallel(TasksOf(role), MAX_PARALLEL)
            /\ UNCHANGED loopIndex
       ELSE /\ tasks' = TasksOf(role)
            /\ taskState' = SequentialAt(1, Len(tasks'))
            /\ loopIndex' = 1
            /\ results' = << >>
            /\ executing' = << >>
            /\ nextTask' = 1
            /\ limiterPc' = "idle"
            /\ ExecAll(TasksOf(role), [k \in 1..Len(TasksOf(role)) |-> "none"], << 1 >>)
            /\ errors' = [k \in 1..Len(TasksOf(role)) |-> NoError]
            /\ UNCHANGED maxConcurrency

\* A main that does not await the phase it started.
PhaseCompleteBroken == TRUE

\* The await of lines 601, 606, 611, 615: the phase has completed.
PhaseComplete ==
    IF USE_PARALLEL THEN limiterPc = "resolved" ELSE loopIndex > Len(tasks)

\* Lines 598-602 / 609-612: the dump phase starts.
StartDump ==
    /\ pc = "export"
    /\ StartPhase("dump")
    /\ pc' = "dump"
    /\ UNCHANGED << exitCode, tempDir, useTraditionalMethod,
                    phaseLog, consoleLog, raised, envVars, dbVars, xferVars >>
    /\ UNCHANGED migrationVars

\* Lines 604-607 / 614-616: every dump has succeeded, the restore phase starts.
StartRestore ==
    /\ pc = "dump"
    /\ PhaseComplete
    /\ StartPhase("restore")
    /\ pc' = "restore"
    /\ UNCHANGED << exitCode, tempDir, useTraditionalMethod,
                    phaseLog, consoleLog, raised, envVars, dbVars, xferVars >>
    /\ UNCHANGED migrationVars

\* Lines 617-629: every restore has succeeded.
FinishRestore ==
    /\ pc = "restore"
    /\ PhaseComplete
    /\ AfterTransfer
    /\ UNCHANGED << exitCode, tempDir, useTraditionalMethod, opsLog, consoleLog,
                    raised, envVars, dbVars, limiterVars, runnerVars, xferVars >>
    /\ UNCHANGED migrationVars

\* Sequential mode: the subprocess of collection loopIndex exits with 0 and
\* the loop starts the next one (lines 445-451, 481-487).
SequentialFulfils ==
    /\ pc \in {"dump", "restore"}
    /\ ~USE_PARALLEL
    /\ loopIndex <= Len(tasks)
    /\ taskState[loopIndex] = "running"
    /\ CanSucceed(tasks[loopIndex])
    /\ Completed(tasks[loopIndex])
    /\ loopIndex' = loopIndex + 1
    /\ taskState' = SequentialAt(loopIndex', Len(tasks))
    /\ ExecAll(tasks, [child EXCEPT ![loopIndex] = "exited"],
               IF loopIndex' <= Len(tasks) THEN << loopIndex' >> ELSE << >>)
    /\ UNCHANGED << pc, exitCode, tempDir, useTraditionalMethod, tasks, maxConcurrency,
                    results, executing, nextTask, limiterPc, errors,
                    envVars, xferVars, logVars >>
    /\ UNCHANGED migrationVars

\* Sequential mode: the subprocess fails and the error is rethrown (lines
\* 452-455, 488-491) into the catch block of main.
SequentialRejects ==
    /\ pc \in {"dump", "restore"}
    /\ ~USE_PARALLEL
    /\ loopIndex <= Len(tasks)
    /\ taskState[loopIndex] = "running"
    /\ taskState' = [taskState EXCEPT ![loopIndex] = "rejected"]
    /\ \E f \in Failures :
          /\ child' = [child EXCEPT ![loopIndex] = ChildAfter(f)]
          /\ errors' = [errors EXCEPT ![loopIndex] = Rejection(Delivered(f))]
    /\ Failed(tasks[loopIndex])
    /\ MainCatch(pc)
    /\ UNCHANGED << tasks, maxConcurrency, results, executing, nextTask, limiterPc,
                    commands,
                    envVars, xferVars >>
    /\ UNCHANGED migrationVars

\* A verifier that rethrows the failure of a count.
VerifyCatchBroken ==
    /\ Exit(1)
    /\ raised' = raised \cup {"verify"}
    /\ phaseLog' = Append(phaseLog, "Failed")
    /\ UNCHANGED << tempDir, useTraditionalMethod, loopIndex, consoleLog, dbVars >>

\* The catch block of verifySpecificCollections, lines 554-556: the failure
\* is logged as a warning and the for..of loop goes on.
VerifyCatch ==
    /\ consoleLog' = consoleLog \cup {Line("warn", {Current})}
    /\ loopIndex' = loopIndex + 1
    /\ pc' = IF loopIndex' > Len(COLLECTIONS_TO_SYNC) THEN "finally" ELSE "verify"
    /\ UNCHANGED << exitCode, tempDir, useTraditionalMethod, phaseLog, raised, dbVars >>

\* verifySpecificCollections, lines 540-558: one count command (mongosh,
\* through executeCommand) per collection; its output is logged as the count,
\* its failure (non-zero exit, timeout, spawn error) goes to the catch block.
VerifyCollection ==
    /\ pc = "verify"
    /\ loopIndex <= Len(COLLECTIONS_TO_SYNC)
    /\ opsLog' = opsLog \cup {"count"}
    /\ \E counted \in BOOLEAN :
          IF counted
          THEN /\ consoleLog' = consoleLog \cup {Line("count", {Current})}
               /\ loopIndex' = loopIndex + 1
               /\ pc' = IF loopIndex' > Len(COLLECTIONS_TO_SYNC)
                        THEN "finally" ELSE "verify"
               /\ UNCHANGED << exitCode, tempDir, useTraditionalMethod,
                               phaseLog, raised, dbVars >>
          ELSE VerifyCatch
    /\ UNCHANGED << envVars, limiterVars, runnerVars, xferVars >>
    /\ UNCHANGED migrationVars

\* The finally block, lines 663-680, reached from the end of the try block:
\* cleanupTempDirectory (lines 523-537) when tempDir is set, whose failure is
\* a warning, then process.exit(0).
Finally ==
    /\ pc = "finally"
    /\ IF tempDir # Unset
       THEN \E removed \in BOOLEAN :
              /\ dumpDir' = IF removed THEN NoDumpDir ELSE dumpDir
              /\ consoleLog' = consoleLog \cup
                    (IF removed THEN {Line("cleanup", {})}
                     ELSE {Line("cleanup", {}), Line("warn", {"cleanup"})})
       ELSE UNCHANGED << dumpDir, consoleLog >>
    /\ phaseLog' = phaseLog \o << "CleaningUp", "Done" >>
    /\ Exit(0)
    /\ UNCHANGED << dest, tempDir, useTraditionalMethod, loopIndex, opsLog, raised,
                    envVars, limiterVars, runnerVars, xferVars >>
    /\ UNCHANGED migrationVars

\* After process.exit(1) a subprocess that was running is not waited for and
\* not killed: it ends on its own, with or without having done its work.
OrphanEnds(i) ==
    /\ pc = "exited"
    /\ taskState[i] = "running"
    /\ taskState' = [taskState EXCEPT ![i] = "orphaned"]
    /\ child' = [child EXCEPT ![i] = "exited"]
    /\ UNCHANGED << errors, commands >>
    /\ \/ CanSucceed(tasks[i]) /\ Completed(tasks[i])
       \/ Failed(tasks[i])
    /\ UNCHANGED << tasks, maxConcurrency, results, executing, nextTask, limiterPc,
                    envVars, mainVars, xferVars, logVars >>
    /\ UNCHANGED migrationVars

\* ------------------------------------- executeInParallel as a unit: SpecLimiter
OpaqueTasks(n) == [k \in 1..n |-> [role |-> "task", collection |-> "none"]]

IdleLimiter ==
    /\ tasks = << >>
    /\ maxConcurrency = 1
    /\ taskState = << >>
    /\ results = << >>
    /\ executing = << >>
    /\ nextTask = 1
    /\ limiterPc = "idle"
    /\ child = << >>
    /\ errors = << >>
    /\ commands = << >>

IdleTransfer ==
    /\ xferPc = "idle"
    /\ processedCount = 0
    /\ totalCount = 0
    /\ batch = << >>
    /\ cursor = 0
    /\ insertCalls = 0
    /\ progress = NoProgress

EmptyLogs ==
    /\ opsLog = {}
    /\ phaseLog = << >>
    /\ consoleLog = {}
    /\ raised = {}

\* The migration script is not part of the sync run: its state stays as it is
\* before the script is started.
IdleMigration ==
    /\ revision = "script"
    /\ episodes = << >>
    /\ rawMedia = << >>
    /\ connection = "none"
    /\ migrationPc = "idle"
    /\ episodesFound = << >>
    /\ episodeIndex = 0
    /\ rawMediaId = 0
    /\ hlsEpisodesFound = 0
    /\ hlsRawMediaCreated = 0
    /\ hlsEpisodesUpdated = 0
    /\ hls265EpisodesFound = 0
    /\ hls265RawMediaCreated = 0
    /\ hls265EpisodesUpdated = 0
    /\ episodeLog = {}
    /\ mainError = FALSE

Harness ==
    /\ config = NoConfig
    /\ pc = "harness"
    /\ exitCode = -1
    /\ tempDir = Unset
    /\ useTraditionalMethod = FALSE
    /\ loopIndex = 1
    /\ EmptyLogs

InitLimiter ==
    /\ Harness
    /\ source = [c \in Collections |-> 0]
    /\ destBefore = NoDatabase
    /\ dest = NoDatabase
    /\ dumpDir = NoDumpDir
    /\ IdleTransfer
    /\ tasks \in { OpaqueTasks(n) : n \in 0..MaxTasks }
    /\ maxConcurrency \in -1..MaxConcurrency
    /\ taskState = [k \in 1..Len(tasks) |-> "pending"]
    /\ results = << >>
    /\ executing = << >>
    /\ nextTask = 1
    /\ limiterPc = "idle"
    /\ child = [k \in 1..Len(tasks) |-> "none"]
    /\ errors = [k \in 1..Len(tasks) |-> NoError]
    /\ commands = << >>
    /\ IdleMigration

\* The harness calls executeInParallel(tasks, maxConcurrency).
HarnessCalls ==
    /\ pc = "harness"
    /\ limiterPc = "idle"
    /\ xferPc = "idle"
    /\ CallExecuteInParallel(tasks, maxConcurrency)
    /\ UNCHANGED << envVars, dbVars, mainVars, xferVars, logVars >>
    /\ UNCHANGED migrationVars

NextLimiter ==
    \/ HarnessCalls
    \/ \E i \in 1..Len(tasks) : TaskFulfils(i)
    \/ \E i \in 1..Len(tasks) : TaskRejects(i)

SpecLimiter == InitLimiter /\ [][NextLimiter]_vars

\* A task that was started settles.
TaskSettles == \E i \in 1..Len(tasks) : TaskFulfils(i) \/ TaskRejects(i)

\* executeInParallel is called and every task that is started eventually
\* settles.
SpecLimiterLive ==
    InitLimiter /\ [][NextLimiter]_vars /\ WF_vars(HarnessCalls) /\ WF_vars(TaskSettles)

\* ------------------------------ transferCollectionDirect as a unit: SpecTransfer
\* What a destination collection may hold before the run: nothing, or a
\* document of its own and a copy of the first source document.
OldCollection == [exists |-> TRUE, docs |-> {StaleDoc, 1}]

\* A destination collection that shares no document with the source.
ForeignCollection == [exists |-> TRUE, docs |-> {StaleDoc}]

InitTransfer ==
    /\ pc = "harness"
    /\ exitCode = -1
    /\ tempDir = Unset
    /\ useTraditionalMethod = FALSE
    /\ loopIndex = 1
    /\ EmptyLogs
    /\ \E b \in 1..MaxBatch : config = [NoConfig EXCEPT !.BATCH_SIZE = b]
    /\ \E m \in 0..MaxDocs :
          source = [c \in Collections |-> IF c = COLLECTIONS_TO_SYNC[1] THEN m ELSE 0]
    /\ \E old \in {NoCollection, OldCollection, ForeignCollection} :
          dest = [c \in Collections |-> IF c = COLLECTIONS_TO_SYNC[1] THEN old
                                        ELSE NoCollection]
    /\ destBefore = dest
    /\ dumpDir = NoDumpDir
    /\ IdleLimiter
    /\ IdleTransfer
    /\ IdleMigration

\* The harness calls transferCollectionDirect for the first collection.
HarnessTransfers ==
    /\ pc = "harness"
    /\ xferPc = "idle"
    /\ limiterPc = "idle"
    /\ Len(tasks) = 0
    /\ xferPc' = "drop"
    /\ UNCHANGED << processedCount, totalCount, batch, cursor, insertCalls, progress,
                    dbVars, envVars, mainVars, limiterVars, runnerVars, logVars >>
    /\ UNCHANGED migrationVars

NextTransfer ==
    \/ HarnessTransfers
    \/ DropTarget
    \/ CountDocuments
    \/ StreamBatch
    \/ FlushRemainder

SpecTransfer == InitTransfer /\ [][NextTransfer]_vars

\* ----------------------------------------------------- the whole run: Spec
Position(c) == CHOOSE k \in 1..Len(COLLECTIONS_TO_SYNC) : COLLECTIONS_TO_SYNC[k] = c

\* The source databases of the model: collection k holds (m + k) mod
\* (MaxDocs + 1) documents.
Sources ==
    { [c \in Collections |-> (m + Position(c)) % (MaxDocs + 1)] : m \in 0..MaxDocs }

Synced(src) == [c \in Collections |-> [exists |-> TRUE, docs |-> 1..src[c]]]

\* The destination databases of the model: empty, holding old documents, or
\* left by an earlier successful run.
Destinations(src) ==
    { NoDatabase, [c \in Collections |-> OldCollection], Synced(src) }

\* ./temp-dump before the run: absent, or left behind by an earlier run.
StaleDumpDir ==
    [ exists |-> TRUE,
      files |-> [c \in Collections |-> [present |-> TRUE, docs |-> {StaleDoc}]] ]

Init ==
    /\ config \in Configs
    /\ source \in Sources
    /\ dest \in Destinations(source)
    /\ destBefore = dest
    /\ dumpDir \in {NoDumpDir, StaleDumpDir}
    /\ pc = "main"
    /\ exitCode = -1
    /\ tempDir = Unset
    /\ useTraditionalMethod = FALSE
    /\ loopIndex = 1
    /\ IdleLimiter
    /\ IdleTransfer
    /\ opsLog = {}
    /\ phaseLog = << "Validating" >>
    /\ consoleLog = {}
    /\ raised = {}
    /\ IdleMigration

Next ==
    \/ Validate
    \/ DirectFallback
    \/ DirectConnect
    \/ DropTarget
    \/ CountDocuments
    \/ StreamBatch
    \/ FlushRemainder
    \/ DirectNext
    \/ DirectClose
    \/ SetupTempDirectory
    \/ StartDump
    \/ \E i \in 1..Len(tasks) : TaskFulfils(i)
    \/ \E i \in 1..Len(tasks) : TaskRejects(i)
    \/ SequentialFulfils
    \/ SequentialRejects
    \/ StartRestore
    \/ FinishRestore
    \/ VerifyCollection
    \/ Finally
    \/ \E i \in 1..Len(tasks) : OrphanEnds(i)

Spec == Init /\ [][Next]_vars

\* ------------------------------------------------------------ properties
\* C1: with 1 <= N <= L, at every instant the number of tasks started by
\* executeInParallel and not yet settled is at most N.
C1_AtMostNInFlight ==
    (1 <= maxConcurrency /\ maxConcurrency <= Len(tasks))
        => Cardinality(InFlight) <= maxConcurrency

C1_Witness ==
    /\ maxConcurrency = 2
    /\ Len(tasks) = 3
    /\ Cardinality(InFlight) = 2
    /\ limiterPc = "race"
    /\ \E k \in 1..Len(tasks) : taskState[k] = "fulfilled"

\* C2: executeInParallel resolves only when every task was started and has
\* fulfilled, resolves as soon as they all have, and is rejected whenever a
\* task has rejected.
C2_SuccessIffAllSucceed ==
    /\ limiterPc = "resolved" =>
          \A k \in 1..Len(tasks) : taskState[k] = "fulfilled"
    /\ (limiterPc # "idle" /\ \A k \in 1..Len(tasks) : taskState[k] = "fulfilled")
          => limiterPc = "resolved"
    /\ (\E k \in 1..Len(tasks) : taskState[k] = "rejected")
          => limiterPc = "rejected"

C2_Witness ==
    /\ limiterPc = "resolved"
    /\ Len(tasks) = 3
    /\ maxConcurrency = 2

\* C3 as stated: whenever the working directory was set up, the cleanup step
\* has run by the time the process has terminated.
C3_CleanupOnEveryExit ==
    (pc = "exited" /\ tempDir # Unset) => Line("cleanup", {}) \in consoleLog

\* A failure that main recovers from: the missing driver.
Recovered == {"fallback"}

\* C4 as stated: exit code 0 only if validation and every transfer stage
\* completed without raising; 1 whenever a failure is not recovered; warnings
\* of the verifier and of the cleanup do not change the code.
C4_AsStated ==
    /\ exitCode = 0 => raised = {}
    /\ (pc = "exited" /\ raised \ Recovered # {}) => exitCode = 1
    /\ (pc = "exited" /\ raised \ Recovered = {}) => exitCode = 0

\* C4, amended: exit code 0 only if validation and every transfer stage
\* completed without raising anything but the recovered missing-driver
\* fallback; 1 whenever a failure is not recovered; warnings of the verifier
\* and of the cleanup do not change the code.
C4_ExitCode ==
    /\ pc # "exited" => exitCode = -1
    /\ exitCode = 0 => raised \subseteq Recovered
    /\ (pc = "exited" /\ raised \ Recovered # {}) => exitCode = 1
    /\ (pc = "exited" /\ raised \ Recovered = {}) => exitCode = 0

C4_Witness ==
    /\ pc = "exited"
    /\ exitCode = 0
    /\ raised = {"fallback"}
    /\ Line("warn", {"cleanup"}) \in consoleLog
    /\ \E c \in Collections : Line("warn", {c}) \in consoleLog

\* The export, import or direct copy of a collection has failed.
CollectionFailed ==
    \/ \E k \in 1..Len(tasks) : taskState[k] = "rejected"
    \/ xferPc = "failed"

\* C5: once the export, import or direct copy of a collection has failed the
\* run has ended with code 1, no task of the phase is started any more, and
\* no later phase (import after export, export/import after direct copy,
\* verification) has started.
C5_FailureStopsSync ==
    /\ [](CollectionFailed =>
            /\ pc = "exited"
            /\ exitCode = 1
            /\ \A k \in 1..Len(phaseLog) : phaseLog[k] # "Verifying"
            /\ \A c \in Collections : Line("count", {c}) \notin consoleLog
            /\ "dump" \in raised => \A k \in 1..Len(tasks) : tasks[k].role = "dump"
            /\ "direct" \in raised => (tempDir = Unset /\ tasks = << >>))
    /\ [][CollectionFailed' =>
            /\ tasks' = tasks
            /\ \A k \in 1..Len(tasks) :
                  taskState[k] = "pending" => taskState'[k] = "pending"]_vars

C5_Witness ==
    /\ USE_PARALLEL
    /\ "dump" \in raised
    /\ \E k \in 1..Len(tasks) : taskState[k] = "pending"
    /\ \E k \in 1..Len(tasks) : taskState[k] = "running"
    /\ pc = "exited"

\* C6: when a task fails while executeInParallel waits, executeInParallel
\* rejects in that very step, whatever tasks are still pending or running,
\* and the step changes the state of no other task.
C6_FailureReportedAtOnce ==
    [][ \A i \in 1..Len(tasks) :
          (taskState[i] = "running" /\ taskState'[i] = "rejected"
             /\ limiterPc \in {"race", "all"})
          => /\ limiterPc' = "rejected"
             /\ \A j \in 1..Len(tasks) : j # i => taskState'[j] = taskState[j] ]_vars

C6_Witness ==
    /\ limiterPc = "rejected"
    /\ Cardinality({k \in 1..Len(tasks) : taskState[k] = "rejected"}) = 1
    /\ \E k \in 1..Len(tasks) : taskState[k] = "running"
    /\ \E k \in 1..Len(tasks) : taskState[k] = "pending"

\* C7: with REMOTE_URI or LOCAL_URI unset the run never leaves validation
\* except to exit with code 1, it has then logged exactly the missing names,
\* and it performs no connection, subprocess or directory operation.
C7_MissingUriExits ==
    (REMOTE_URI = "unset" \/ LOCAL_URI = "unset") =>
        /\ pc \in {"main", "exited"}
        /\ opsLog = {}
        /\ dest = destBefore
        /\ pc = "exited" =>
              /\ exitCode = 1
              /\ Line("missing", {v \in {"REMOTE_URI", "LOCAL_URI"} :
                                     config[v] = "unset"}) \in consoleLog

C7_Witness ==
    /\ REMOTE_URI = "valid"
    /\ LOCAL_URI = "unset"
    /\ USE_DIRECT_TRANSFER
    /\ pc = "exited"
    /\ exitCode = 1

\* A run with USE_DIRECT_TRANSFER=true whose driver is missing.
FallbackRun ==
    /\ USE_DIRECT_TRANSFER
    /\ ~config.driverInstalled
    /\ REMOTE_URI = "valid"
    /\ LOCAL_URI = "valid"

\* The state in which a run enters the export/import path.
EntersExportImport ==
    /\ dest = destBefore
    /\ useTraditionalMethod
    /\ tempDir = Unset
    /\ exitCode = -1
    /\ loopIndex = 1
    /\ opsLog = {}
    /\ IdleLimiter
    /\ IdleTransfer

\* C8: a run with USE_DIRECT_TRANSFER=true and no driver touches no database
\* in its direct attempt, enters the export/import path in the very state in
\* which a run with USE_DIRECT_TRANSFER=false enters it, goes through that
\* path only, and ends with the same exit code and destination (exit code 0
\* exactly when nothing else failed, the destination then equal to the
\* source).
C8_FallbackEquivalent ==
    /\ pc = "setup" => EntersExportImport
    /\ FallbackRun =>
          /\ "connect" \notin opsLog
          /\ xferPc = "idle"
          /\ pc \in {"main", "direct"} => dest = destBefore
          /\ pc \notin {"main", "direct"} =>
                (useTraditionalMethod /\ phaseLog[3] = "ExportRestore")
          /\ pc = "exited" => (exitCode = 0 <=> raised = {"fallback"})
          /\ exitCode = 0 => dest = Synced(source)

C8_Witness ==
    /\ FallbackRun
    /\ exitCode = 0
    /\ dest # destBefore
    /\ dest = Synced(source)

\* C9: after a successful export-then-import run every listed destination
\* collection holds exactly the documents of its source collection, whatever
\* it held before; a run on a destination that an earlier run left leaves
\* it as it was.
C9_RoundTrip ==
    (pc = "exited" /\ exitCode = 0 /\ useTraditionalMethod) =>
        /\ dest = Synced(source)
        /\ destBefore = Synced(source) => dest = destBefore

C9_Witness ==
    /\ pc = "exited"
    /\ exitCode = 0
    /\ useTraditionalMethod
    /\ destBefore = [c \in Collections |-> OldCollection]
    /\ \E c \in Collections : source[c] >= 2
    /\ \E c \in Collections : source[c] = 0

Ceil(m, b) == (m + b - 1) \div b

\* C10 as stated: a completed transferCollectionDirect of M documents with
\* batch size B has issued ceil(M / B) inserts and processed M documents;
\* with M = 0 it issued none and reported 100%; the remainder batch of
\* M mod B documents was flushed.
C10_AsStated ==
    xferPc = "done" =>
        LET m == source[Current]
        IN  /\ insertCalls = Ceil(m, BATCH_SIZE)
            /\ processedCount = m
            /\ m = 0 => (insertCalls = 0 /\ progress = 1000)
            /\ m % BATCH_SIZE # 0 =>
                  (Len(batch) = m % BATCH_SIZE /\ Range(batch) \subseteq dest[Current].docs)

\* C10, amended: as stated, except that with M = 0 no percentage is written
\* at all (a percentage is written only after a full batch).
C10_BatchCounts ==
    xferPc = "done" =>
        LET m == source[Current]
        IN  /\ insertCalls = Ceil(m, BATCH_SIZE)
            /\ processedCount = m
            /\ m = 0 => (insertCalls = 0 /\ progress = NoProgress)
            /\ m % BATCH_SIZE # 0 =>
                  (Len(batch) = m % BATCH_SIZE /\ Range(batch) \subseteq dest[Current].docs)

C10_Witness ==
    /\ xferPc = "done"
    /\ source[Current] = 3
    /\ BATCH_SIZE = 2
    /\ insertCalls = 2
    /\ Len(batch) = 1

\* The lines the verifier has logged for collection c.
VerifierLines(c) == {Line("count", {c}), Line("warn", {c})} \cap consoleLog

Last(s) == s[Len(s)]

\* C11: with SKIP_VERIFICATION=true main never enters the verifier, no count
\* command is issued and no line of the verifier is logged, on the direct
\* path and on the export/import path.
C11_SkipVerification ==
    SKIP_VERIFICATION =>
        /\ pc # "verify"
        /\ "count" \notin opsLog
        /\ \A c \in Collections : VerifierLines(c) = {}
        /\ \A k \in 1..Len(phaseLog) : phaseLog[k] # "Verifying"

C11_Witness ==
    /\ SKIP_VERIFICATION
    /\ pc = "exited"
    /\ exitCode = 0
    /\ "connect" \in opsLog
    /\ \E c \in Collections : source[c] > 0 /\ dest[c].docs = 1..source[c]

\* C12: a count that fails is logged as a warning; the count is attempted
\* for every collection of the list whatever failed before; the verifier
\* changes no data and raises nothing, and a run that verified ends in Done
\* with code 0.
C12_VerifierFailsOpen ==
    /\ [](/\ pc = "verify" =>
               /\ exitCode = -1
               /\ \A k \in 1..Len(COLLECTIONS_TO_SYNC) :
                     (k < loopIndex) <=> VerifierLines(COLLECTIONS_TO_SYNC[k]) # {}
          /\ (pc \in {"finally", "exited"} /\ "count" \in opsLog) =>
               \A c \in Collections : VerifierLines(c) # {}
          /\ (pc = "exited" /\ "count" \in opsLog) =>
               (exitCode = 0 /\ Last(phaseLog) = "Done"))
    /\ [][pc = "verify" =>
            /\ pc' \in {"verify", "finally"}
            /\ raised' = raised
            /\ dest' = dest
            /\ dumpDir' = dumpDir]_vars

C12_Witness ==
    /\ pc = "exited"
    /\ Last(phaseLog) = "Done"
    /\ Line("warn", {COLLECTIONS_TO_SYNC[1]}) \in consoleLog
    /\ Line("count", {COLLECTIONS_TO_SYNC[2]}) \in consoleLog
    /\ Line("warn", {COLLECTIONS_TO_SYNC[3]}) \in consoleLog

\* The transitions of the orchestrator as stated: the normal path, and the
\* error path from any state through CleaningUp to Failed.
StatedTransitions ==
    { << "Validating", "DirectTransfer" >>, << "Validating", "ExportRestore" >>,
      << "DirectTransfer", "Verifying" >>, << "ExportRestore", "Verifying" >>,
      << "Verifying", "CleaningUp" >>, << "CleaningUp", "Done" >>,
      << "CleaningUp", "Failed" >> }
        \cup { << from, "CleaningUp" >> :
                   from \in {"Validating", "DirectTransfer", "ExportRestore", "Verifying"} }

\* C13 as stated: the phases of a run follow only the stated transitions, so
\* that Done and Failed are entered from CleaningUp only.
C13_PhaseOrder ==
    \A k \in 1..(Len(phaseLog) - 1) :
        << phaseLog[k], phaseLog[k + 1] >> \in StatedTransitions

\* C14: when N tasks are in flight and tasks are still unstarted, the step
\* in which any one of them fulfils starts the next task of the list, while
\* the other N - 1 are still running: N tasks are in flight again.
C14_SlidingWindow ==
    [][ \A i \in 1..Len(tasks) :
          (/\ maxConcurrency >= 1
           /\ Cardinality(InFlight) = maxConcurrency
           /\ nextTask <= Len(tasks)
           /\ taskState[i] = "running"
           /\ taskState'[i] = "fulfilled")
          => /\ taskState[nextTask] = "pending"
             /\ taskState'[nextTask] = "running"
             /\ \A j \in InFlight \ {i} : taskState'[j] = "running"
             /\ Cardinality(InFlight') = maxConcurrency ]_vars

C14_Witness ==
    /\ maxConcurrency = 3
    /\ Len(tasks) = 4
    /\ limiterPc = "race"
    /\ taskState = << "running", "fulfilled", "running", "running" >>

\* The subprocesses that are running.
Children == { k \in 1..Len(child) : child[k] = "running" }

IsPrefix(s, t) == Len(s) <= Len(t) /\ s = SubSeq(t, 1, Len(s))

\* The commands of a run on the export/import path, in the order of the
\* collection list.
ListOrder == TasksOf("dump") \o TasksOf("restore")

\* In parallel mode a collection has completed before an earlier one of the
\* list.
OutOfOrderCompletion ==
    /\ USE_PARALLEL
    /\ pc = "restore"
    /\ \E j, k \in 1..Len(tasks) :
          j < k /\ taskState[j] = "running" /\ taskState[k] = "fulfilled"

\* C15: in sequential mode at most one export or import is in flight and
\* the collections that have completed are the first ones of the list, so
\* that they complete in list order; in both modes the commands are started
\* in list order.
C15_Ordering ==
    /\ (~USE_PARALLEL) =>
          /\ Cardinality(InFlight) <= 1
          /\ Cardinality(Children) <= 1
          /\ \A j, k \in 1..Len(tasks) :
                (j < k /\ taskState[k] \in {"running", "fulfilled"})
                    => taskState[j] = "fulfilled"
    /\ IsPrefix(commands, ListOrder)
    /\ \A j, k \in 1..Len(tasks) :
          (j < k /\ taskState[k] # "pending") => taskState[j] # "pending"

C15_Witness ==
    /\ ~USE_PARALLEL
    /\ pc = "restore"
    /\ taskState = << "fulfilled", "running", "pending" >>
    /\ Len(commands) = Len(COLLECTIONS_TO_SYNC) + 2

\* The tasks whose subprocess ran longer than its timeout.
TimedOut == { k \in 1..Len(tasks) : errors[k] = Rejection(Delivered([cause |-> "timeout", code |-> "null"])) }

\* C16: a subprocess that ran longer than its timeout has been terminated
\* and its task has failed; the step in which this happens neither ends the
\* subprocess of a sibling nor settles a sibling's task.
C16_TimeoutKills ==
    /\ [](\A k \in 1..Len(tasks) :
            /\ k \in TimedOut => (child[k] = "killed" /\ taskState[k] = "rejected")
            /\ child[k] = "killed" => (k \in TimedOut /\ taskState[k] = "rejected"))
    /\ [][ \A i \in 1..Len(tasks) :
             (child[i] = "running" /\ child'[i] = "killed")
             => \A j \in 1..Len(tasks) :
                   j # i => (child'[j] = child[j] /\ taskState'[j] = taskState[j]) ]_vars

C16_Witness ==
    /\ Cardinality(TimedOut) = 1
    /\ Cardinality(Children) = 2
    /\ \E k \in 1..Len(tasks) : taskState[k] = "fulfilled"

\* C17 as stated: a subprocess that exited with a non-zero code fails its
\* task with an exit-code error carrying that code, one that ran longer than
\* its timeout fails it with a timeout error, and neither is reported as the
\* other.
C17_FailureKinds ==
    \A k \in 1..Len(tasks) :
        /\ child[k] = "killed" => errors[k].message = "Command timed out"
        /\ child[k] = "exited" /\ taskState[k] = "rejected" =>
              (errors[k].message = "Command failed with exit code"
                  /\ errors[k].code \in ExitCodes)
        /\ errors[k].message = "Command failed with exit code" => child[k] = "exited"

\* Every import task has finished.
ImportsFinished ==
    /\ tasks = TasksOf("restore")
    /\ \A k \in 1..Len(tasks) : taskState[k] = "fulfilled"
    /\ Children = {}

ExportImportEntered ==
    \/ pc \in {"setup", "export", "dump", "restore"}
    \/ useTraditionalMethod
    \/ tempDir # Unset
    \/ commands # << >>
    \/ "dir" \in opsLog

\* C19: the export/import path is entered only when the configuration asks
\* for it or the driver of the direct transfer is missing; once the driver
\* is loaded, a failure of the direct transfer (connecting, copying a
\* collection, closing) ends the run with code 1 and the export/import path
\* is never entered.
C19_StrategyFixed ==
    /\ ExportImportEntered => (~USE_DIRECT_TRANSFER \/ ~config.driverInstalled)
    /\ "fallback" \in raised => (USE_DIRECT_TRANSFER /\ ~config.driverInstalled)
    /\ "direct" \in raised =>
          (pc = "exited" /\ exitCode = 1 /\ ~ExportImportEntered)
    /\ (xferPc = "failed" /\ pc # "harness") => "direct" \in raised

C19_Witness ==
    /\ "direct" \in raised
    /\ xferPc = "failed"
    /\ loopIndex = 2
    /\ exitCode = 1

\* The number of commands started for collection c in the given role.
Invocations(role, c) ==
    Cardinality({ k \in 1..Len(commands) :
                    commands[k] = [role |-> role, collection |-> c] })

\* C20: every command is the export or the import of one collection of the
\* list and none is started twice; a task is started only while it is
\* pending; a run on the export/import path that ends with code 0 has
\* started exactly one export and one import for each collection.
C20_OncePerCollection ==
    /\ [](/\ \A k \in 1..Len(commands) :
               /\ commands[k].role \in {"dump", "restore"}
               /\ commands[k].collection \in Collections
          /\ \A c \in Collections :
               Invocations("dump", c) <= 1 /\ Invocations("restore", c) <= 1
          /\ (pc = "exited" /\ exitCode = 0 /\ tempDir # Unset) =>
               /\ Len(commands) = 2 * Len(COLLECTIONS_TO_SYNC)
               /\ \A c \in Collections :
                     Invocations("dump", c) = 1 /\ Invocations("restore", c) = 1)
    /\ [][ \A k \in 1..Len(tasks) :
             (tasks' = tasks /\ taskState'[k] = "running" /\ taskState[k] # "running")
                => taskState[k] = "pending" ]_vars

C20_Witness ==
    /\ pc = "exited"
    /\ exitCode = 0
    /\ USE_PARALLEL
    /\ MAX_PARALLEL = 2
    /\ Len(commands) = 2 * Len(COLLECTIONS_TO_SYNC)
    /\ \A c \in Collections : dest[c].docs = 1..source[c]

\* C21 as stated: when transferCollectionDirect has completed, the
\* destination collection holds exactly the documents of the source
\* collection, whatever it held before and whether or not it existed.
C21_ExactCopy ==
    (pc = "harness" /\ xferPc = "done") =>
        dest[Current].docs = Range(SourceDocs(source[Current]))

\* The tenths of a percent n that processed / total * 100 is cut to.
Truncated(n, processed, total) ==
    n * total <= 1000 * processed /\ 1000 * processed < (n + 1) * total

\* The tenths of a percent n nearest to processed / total * 100.
Rounded(n, processed, total) ==
    2 * n * total <= 2000 * processed + total
        /\ 2000 * processed + total < 2 * (n + 1) * total

\* C22 as stated: the percentage written after a full batch is
\* processedCount / totalCount * 100 cut to one decimal, totalCount being
\* the count taken before streaming.
C22_AsStated ==
    (xferPc = "stream" /\ progress # NoProgress) =>
        /\ totalCount = source[Current]
        /\ 0 < processedCount /\ processedCount <= totalCount
        /\ Truncated(progress, processedCount, totalCount)

\* C22, amended: the percentage written after a full batch is
\* processedCount / totalCount * 100 rounded to the nearest tenth,
\* totalCount being the count taken before streaming.
C22_ProgressRounded ==
    (xferPc = "stream" /\ progress # NoProgress) =>
        /\ totalCount = source[Current]
        /\ 0 < processedCount /\ processedCount <= totalCount
        /\ Rounded(progress, processedCount, totalCount)

C22_Witness ==
    /\ xferPc = "stream"
    /\ processedCount = 2
    /\ totalCount = 3
    /\ progress = 667

\* Every export of the list has completed with code 0.
ExportsCompleted ==
    \/ pc = "restore"
    \/ /\ pc = "dump"
       /\ tasks = TasksOf("dump")
       /\ \A k \in 1..Len(tasks) : taskState[k] = "fulfilled" /\ child[k] = "exited"
       /\ \A c \in Collections : dumpDir.files[c].present

\* C23: a step that starts an import is taken only when every export of the
\* list has completed with code 0, and whenever an import has been started
\* the exports of all collections were started before it.
C23_ImportAfterExports ==
    /\ [](\A k \in 1..Len(commands) :
            commands[k].role = "restore" =>
                (k > Len(COLLECTIONS_TO_SYNC)
                    /\ SubSeq(commands, 1, Len(COLLECTIONS_TO_SYNC)) = TasksOf("dump")))
    /\ [][ (Len(commands') > Len(commands)
              /\ commands'[Len(commands')].role = "restore")
           => ExportsCompleted ]_vars

C23_Witness ==
    /\ USE_PARALLEL
    /\ MAX_PARALLEL = 2
    /\ pc = "restore"
    /\ Cardinality(Children) = 2
    /\ \A c \in Collections : dumpDir.files[c].docs = 1..source[c]

\* C24: from a state in which a task of executeInParallel has failed, no
\* step starts a task.
C24_NoStartAfterFailure ==
    [][ (limiterPc # "idle" /\ \E k \in 1..Len(tasks) : taskState[k] = "rejected")
          => \A j \in 1..Len(tasks) :
                taskState[j] = "pending" => taskState'[j] = "pending" ]_vars

C24_Witness ==
    /\ maxConcurrency = 2
    /\ taskState = << "rejected", "fulfilled", "pending", "pending" >>

\* executeInParallel has returned or thrown.
Returned == limiterPc \in {"resolved", "rejected"}

\* C25: with N >= 1, whenever executeInParallel waits a task is in flight,
\* and if every started task settles it eventually returns or throws.
C25_Terminates ==
    (maxConcurrency >= 1) =>
        /\ [](limiterPc \in {"race", "all"} => InFlight # {})
        /\ <>Returned

C25_Witness ==
    /\ maxConcurrency = 1
    /\ limiterPc = "rejected"
    /\ taskState = << "fulfilled", "rejected", "pending", "pending" >>
    /\ executing = << 2 >>

\* C26: while the direct transfer works on collection k of the list, and
\* when it has failed there, every collection after k is as it was before
\* the run and every collection before k holds the documents that were
\* inserted for it.
C26_OneAtATime ==
    (pc = "transfer" \/ (pc = "exited" /\ xferPc = "failed")) =>
        \A j \in 1..Len(COLLECTIONS_TO_SYNC) :
            /\ j > loopIndex =>
                  dest[COLLECTIONS_TO_SYNC[j]] = destBefore[COLLECTIONS_TO_SYNC[j]]
            /\ j < loopIndex =>
                  1..source[COLLECTIONS_TO_SYNC[j]] \subseteq dest[COLLECTIONS_TO_SYNC[j]].docs

C26_Witness ==
    /\ pc = "exited"
    /\ xferPc = "failed"
    /\ loopIndex = 2
    /\ insertCalls > 0
    /\ dest[COLLECTIONS_TO_SYNC[1]] # destBefore[COLLECTIONS_TO_SYNC[1]]
    /\ dest[COLLECTIONS_TO_SYNC[3]] = OldCollection

\* C27: the count of processed documents never exceeds the count taken
\* before streaming, a batch inserted from inside the loop holds exactly
\* BATCH_SIZE documents, and no percentage written exceeds 100.
C27_TransferInvariants ==
    /\ [](/\ processedCount <= totalCount
          /\ progress = NoProgress \/ (0 < progress /\ progress <= 1000)
          /\ (pc \in {"harness", "transfer"} /\ xferPc \in {"stream", "flush", "done"}) =>
                /\ totalCount = source[Current]
                /\ xferPc # "done" => processedCount = cursor - Len(batch))
    /\ [][ (xferPc = "stream" /\ insertCalls' > insertCalls) =>
             IF xferPc' = "failed"
             THEN Len(batch') = BATCH_SIZE
             ELSE processedCount' = processedCount + BATCH_SIZE ]_vars

C27_Witness ==
    /\ xferPc = "done"
    /\ BATCH_SIZE = 2
    /\ insertCalls = 2
    /\ processedCount = 3
    /\ progress = 667

\* ------------------------------- the episode-migration script: SpecMigration
\* script.js and its counting revision (unnamed/part_002) share their shape:
\* connect, Phase 1 over the episodes that miss visionularHls.rawMediaId,
\* Phase 2 over the episodes that miss the H265 one, close the connection.
MaxEpisodes == 2

Revisions == {"script", "counting"}
Slugs == {"s1", "s2"}
Types == {"individual"}
Languages == {"en", "hin"}

\* Values of the field rawMediaId of a transcoding object: the episode has no
\* such object, or the object has no usable rawMediaId (missing, "" or null),
\* or the id of a raw-media record (1, 2, ...).
NoObject == -1
NoId == 0

\* Episodes as the script finds them: active ones displayed in English, with
\* or without each transcoding object, and next to them episodes that are
\* inactive or displayed in another language.
EpisodeShapes ==
    [slug : Slugs, type : Types, language : Languages, displayLanguage : {"en"},
     status : {"active"}, visionularHls : {NoObject, NoId},
     visionularHls265 : {NoObject, NoId}]
    \cup { [slug |-> s, type |-> t, language |-> "en", displayLanguage |-> d.display,
            status |-> d.status, visionularHls |-> NoId, visionularHls265 |-> NoId] :
           s \in Slugs, t \in Types,
           d \in {[display |-> "en", status |-> "inactive"],
                  [display |-> "hin", status |-> "active"]} }

WithId(k, shape) ==
    [_id |-> k, slug |-> shape.slug, type |-> shape.type,
     language |-> shape.language, displayLanguage |-> shape.displayLanguage,
     status |-> shape.status, visionularHls |-> shape.visionularHls,
     visionularHls265 |-> shape.visionularHls265]

EpisodeCollections ==
    UNION { { [k \in 1..n |-> WithId(k, f[k])] : f \in [1..n -> EpisodeShapes] } :
            n \in 0..MaxEpisodes }

TranscodingTypeOf(phase) == IF phase = 1 THEN "visionularHls" ELSE "visionularHls265"

RawMediaIdOf(doc, transcodingType) ==
    IF transcodingType = "visionularHls" THEN doc.visionularHls
    ELSE doc.visionularHls265

\* The query of findActiveEpisodesWithMissingRawMediaId; the counting revision
\* adds displayLanguage: "en".
MissingRawMediaId(doc, transcodingType) ==
    /\ doc.status = "active"
    /\ revision = "counting" => doc.displayLanguage = "en"
    /\ RawMediaIdOf(doc, transcodingType) = NoId

FindActiveEpisodesWithMissingRawMediaId(transcodingType) ==
    SelectSeq(episodes, LAMBDA doc : MissingRawMediaId(doc, transcodingType))

\* Episode.updateOne({ slug, type }, $set both rawMediaId fields): the first
\* document in natural order that matches, and no other.
UpdateOne(docs, slug, type, id) ==
    LET hits == { k \in 1..Len(docs) : docs[k].slug = slug /\ docs[k].type = type }
    IN  IF hits = {} THEN docs
        ELSE LET first == CHOOSE k \in hits : \A j \in hits : k <= j
             IN  [docs EXCEPT ![first].visionularHls = id,
                              ![first].visionularHls265 = id]

\* Episode.updateMany({ slug, type, language: dialect }, $set the rawMediaId of
\* one transcoding type).
UpdateMany(docs, doc, transcodingType, id) ==
    [k \in 1..Len(docs) |->
        IF /\ docs[k].slug = doc.slug
           /\ docs[k].type = doc.type
           /\ docs[k].language = doc.language
        THEN IF transcodingType = "visionularHls"
             THEN [docs[k] EXCEPT !.visionularHls = id]
             ELSE [docs[k] EXCEPT !.visionularHls265 = id]
        ELSE docs[k]]

AddRawMediaToEnAndHinEpisode(doc, transcodingType, id) ==
    IF revision = "script" THEN UpdateOne(episodes, doc.slug, doc.type, id)
    ELSE UpdateMany(episodes, doc, transcodingType, id)

\* createRawMediaFromEpisode reads visionularTaskId of both transcoding
\* objects without optional chaining: it throws a TypeError when one is absent.
CanCreate(doc) == doc.visionularHls # NoObject /\ doc.visionularHls265 # NoObject

CreateOutcomes(doc) ==
    IF CanCreate(doc) THEN {"created", "probe failed", "create failed"}
    ELSE {"probe failed", "type error"}

\* Only the counting revision keeps counters.
CountedBroken(counter) == counter

Counted(counter) == IF revision = "counting" THEN counter + 1 ELSE counter

\* Where main awaits next when the loop of a phase stands before iteration
\* idx: the creation of a raw-media record, the update of the episode (Phase 2
\* of the counting revision reuses the id Phase 1 stored), or past the loop.
Upcoming(phase, found, idx) ==
    IF idx > Len(found)
    THEN [pc |-> IF phase = 1 THEN "find2" ELSE "finally", id |-> 0]
    ELSE IF phase = 1 THEN [pc |-> "create1", id |-> 0]
    ELSE IF found[idx].visionularHls >= 1
         THEN [pc |-> "update2", id |-> found[idx].visionularHls]
         ELSE [pc |-> "create2", id |-> 0]

\* The catch block inside each loop body: log, go on with the next episode.
CaughtBroken(phase, found, idx) == [pc |-> "finally", id |-> 0]

Caught(phase, found, idx) == Upcoming(phase, found, idx + 1)

Entry(phase, id, outcome, raw) ==
    [phase |-> phase, id |-> id, outcome |-> outcome, rawMediaId |-> raw]

Phase == IF migrationPc \in {"find1", "create1", "update1"} THEN 1 ELSE 2

\* Phase 2 of script.js has no await inside its loop: an episode whose lean
\* document has no visionularHls.rawMediaId is skipped, and for any other
\* episode.save() is not a function, which the loop's catch block logs.
SavedOrSkipped(found) ==
    { Entry(2, found[k]._id,
            IF found[k].visionularHls >= 1 THEN "save failed" ELSE "skipped", 0) :
      k \in 1..Len(found) }

IdleSync ==
    /\ Harness
    /\ source = [c \in Collections |-> 0]
    /\ destBefore = NoDatabase
    /\ dest = NoDatabase
    /\ dumpDir = NoDumpDir
    /\ IdleLimiter
    /\ IdleTransfer

InitMigration ==
    /\ IdleSync
    /\ revision \in Revisions
    /\ episodes \in EpisodeCollections
    /\ rawMedia = << >>
    /\ connection = "none"
    /\ migrationPc = "start"
    /\ episodesFound = << >>
    /\ episodeIndex = 0
    /\ rawMediaId = 0
    /\ hlsEpisodesFound = 0
    /\ hlsRawMediaCreated = 0
    /\ hlsEpisodesUpdated = 0
    /\ hls265EpisodesFound = 0
    /\ hls265RawMediaCreated = 0
    /\ hls265EpisodesUpdated = 0
    /\ episodeLog = {}
    /\ mainError = FALSE

\* connectDB: mongoose.connect resolves, or rejects and the process exits.
ConnectDB ==
    /\ migrationPc = "start"
    /\ \/ connection' = "open" /\ migrationPc' = "find1"
       \/ connection' = "none" /\ migrationPc' = "exited"
    /\ UNCHANGED << revision, episodes, rawMedia, episodesFound, episodeIndex,
                    rawMediaId, counterVars, episodeLog, mainError, syncVars >>

\* The query of a phase settles. When it resolves main runs on to its next
\* await; when it rejects main's outer catch block runs.
FindEpisodes ==
    /\ migrationPc \in {"find1", "find2"}
    /\ \/ LET found == FindActiveEpisodesWithMissingRawMediaId(TranscodingTypeOf(Phase))
              next == IF revision = "script" /\ Phase = 2
                      THEN [pc |-> "finally", id |-> 0]
                      ELSE Upcoming(Phase, found, 1)
          IN  /\ episodesFound' = found
              /\ episodeIndex' = 1
              /\ migrationPc' = next.pc
              /\ rawMediaId' = next.id
              /\ episodeLog' = episodeLog
                    \cup {Entry(Phase, 0, "query", 0)}
                    \cup {Entry(Phase, found[k]._id, "found", 0) : k \in 1..Len(found)}
                    \cup (IF revision = "script" /\ Phase = 2
                          THEN SavedOrSkipped(found) ELSE {})
              /\ IF revision = "counting" /\ Phase = 1
                 THEN /\ hlsEpisodesFound' = Len(found)
                      /\ UNCHANGED hls265EpisodesFound
                 ELSE IF revision = "counting"
                 THEN /\ hls265EpisodesFound' = Len(found)
                      /\ UNCHANGED hlsEpisodesFound
                 ELSE UNCHANGED << hlsEpisodesFound, hls265EpisodesFound >>
              /\ UNCHANGED mainError
       \/ /\ mainError' = TRUE
          /\ migrationPc' = "finally"
          /\ episodeLog' = episodeLog \cup {Entry(Phase, 0, "query failed", 0)}
          /\ UNCHANGED << episodesFound, episodeIndex, rawMediaId,
                          hlsEpisodesFound, hls265EpisodesFound >>
    /\ UNCHANGED << revision, episodes, rawMedia, connection, hlsRawMediaCreated,
                    hlsEpisodesUpdated, hls265RawMediaCreated,
                    hls265EpisodesUpdated, syncVars >>

\* createRawMediaFromEpisode settles for the episode of this iteration.
CreateRawMediaFromEpisode ==
    /\ migrationPc \in {"create1", "create2"}
    /\ LET doc == episodesFound[episodeIndex]
       IN  \E outcome \in CreateOutcomes(doc) :
              IF outcome = "created"
              THEN /\ rawMedia' = Append(rawMedia, doc._id)
                   /\ rawMediaId' = Len(rawMedia) + 1
                   /\ migrationPc' = IF Phase = 1 THEN "update1" ELSE "update2"
                   /\ IF Phase = 1
                      THEN /\ hlsRawMediaCreated' = Counted(hlsRawMediaCreated)
                           /\ UNCHANGED hls265RawMediaCreated
                      ELSE /\ hls265RawMediaCreated' = Counted(hls265RawMediaCreated)
                           /\ UNCHANGED hlsRawMediaCreated
                   /\ UNCHANGED << episodeIndex, episodeLog >>
              ELSE LET next == Caught(Phase, episodesFound, episodeIndex)
                   IN  /\ episodeLog' = episodeLog \cup {Entry(Phase, doc._id, outcome, 0)}
                       /\ episodeIndex' = episodeIndex + 1
                       /\ migrationPc' = next.pc
                       /\ rawMediaId' = next.id
                       /\ UNCHANGED << rawMedia, hlsRawMediaCreated,
                                       hls265RawMediaCreated >>
    /\ UNCHANGED << revision, episodes, connection, episodesFound, hlsEpisodesFound,
                    hlsEpisodesUpdated, hls265EpisodesFound, hls265EpisodesUpdated,
                    mainError, syncVars >>

\* addRawMediaToEnAndHinEpisode settles for the episode of this iteration.
UpdateEpisode ==
    /\ migrationPc \in {"update1", "update2"}
    /\ LET doc == episodesFound[episodeIndex]
       IN  \/ LET next == Upcoming(Phase, episodesFound, episodeIndex + 1)
              IN  /\ episodes' = AddRawMediaToEnAndHinEpisode(
                                     doc, TranscodingTypeOf(Phase), rawMediaId)
                  /\ episodeLog' = episodeLog
                        \cup {Entry(Phase, doc._id, "updated", rawMediaId)}
                  /\ migrationPc' = next.pc
                  /\ rawMediaId' = next.id
                  /\ IF Phase = 1
                     THEN /\ hlsEpisodesUpdated' = Counted(hlsEpisodesUpdated)
                          /\ UNCHANGED hls265EpisodesUpdated
                     ELSE /\ hls265EpisodesUpdated' = Counted(hls265EpisodesUpdated)
                          /\ UNCHANGED hlsEpisodesUpdated
           \/ LET next == Caught(Phase, episodesFound, episodeIndex)
              IN  /\ episodeLog' = episodeLog
                        \cup {Entry(Phase, doc._id, "update failed", rawMediaId)}
                  /\ migrationPc' = next.pc
                  /\ rawMediaId' = next.id
                  /\ UNCHANGED << episodes, hlsEpisodesUpdated, hls265EpisodesUpdated >>
    /\ episodeIndex' = episodeIndex + 1
    /\ UNCHANGED << revision, rawMedia, connection, episodesFound, hlsEpisodesFound,
                    hlsRawMediaCreated, hls265EpisodesFound, hls265RawMediaCreated,
                    mainError, syncVars >>

\* The finally block of main: mongoose.connection.close().
CloseConnection ==
    /\ migrationPc = "finally"
    /\ connection' = "closed"
    /\ migrationPc' = "done"
    /\ UNCHANGED << revision, episodes, rawMedia, episodesFound, episodeIndex,
                    rawMediaId, counterVars, episodeLog, mainError, syncVars >>

NextMigration ==
    \/ ConnectDB
    \/ FindEpisodes
    \/ CreateRawMediaFromEpisode
    \/ UpdateEpisode
    \/ CloseConnection

SpecMigration == InitMigration /\ [][NextMigration]_vars

\* ------------------------------------------- properties of the migration script
Queried(phase) == Entry(phase, 0, "query", 0) \in episodeLog

FailedOutcomes ==
    {"probe failed", "create failed", "type error", "update failed", "save failed"}

\* Every episode the query of the phase returned has gone through the loop body.
Processed(phase) ==
    \A e \in episodeLog :
        e.phase = phase /\ e.outcome = "found"
        => \E f \in episodeLog :
              /\ f.phase = phase
              /\ f.id = e.id
              /\ f.outcome \in FailedOutcomes \cup {"updated", "skipped"}

\* C28: in both revisions a failure inside the loop body of one episode is
\* contained. Once Phase 1's query has returned, main leaves Phase 1 only with
\* every episode of Phase 1 processed; it reaches the finally block only after
\* Phase 2's query was issued and, unless a query itself failed, with every
\* episode of Phase 2 processed; and main ends with the connection closed.
C28_FailuresContained ==
    /\ migrationPc \in {"find2", "create2", "update2", "finally", "done"} /\ Queried(1)
       => Processed(1)
    /\ migrationPc \in {"finally", "done"} /\ ~mainError
       => Queried(1) /\ Queried(2) /\ Processed(1) /\ Processed(2)
    /\ migrationPc = "done" => connection = "closed"

\* An episode of Phase 1 failed, a later episode of Phase 1 was updated, an
\* episode of Phase 2 failed too, and the run ended with the connection closed.
C28_Witness ==
    /\ migrationPc = "done"
    /\ connection = "closed"
    /\ ~mainError
    /\ \E e, f \in episodeLog :
          /\ e.phase = 1 /\ e.outcome \in FailedOutcomes
          /\ f.phase = 1 /\ f.outcome = "updated" /\ f.id > e.id
    /\ \E g \in episodeLog : g.phase = 2 /\ g.outcome \in FailedOutcomes

\* Phase 1 of script.js is over and none of its iterations failed.
Phase1Clean ==
    /\ revision = "script"
    /\ migrationPc \in {"find2", "finally", "done"}
    /\ Queried(1)
    /\ \A e \in episodeLog : e.phase = 1 => e.outcome \notin FailedOutcomes

\* C29: after a Phase 1 of script.js without a per-episode failure, every
\* episode Phase 1 selected holds, in visionularHls.rawMediaId and in
\* visionularHls265.rawMediaId, the id of the raw-media record created for it,
\* and the query of a second run does not select it.
C29_EverySelectedEpisodeLinked ==
    Phase1Clean
    => \A e \in episodeLog :
          e.phase = 1 /\ e.outcome = "found"
          => LET doc == episodes[e.id]
             IN  /\ doc.visionularHls >= 1
                 /\ rawMedia[doc.visionularHls] = e.id
                 /\ doc.visionularHls265 = doc.visionularHls
                 /\ ~MissingRawMediaId(doc, "visionularHls")

\* C30: in the counting revision the counters are ordered as stated and the
\* raw-media records created during the run are as many as the two
\* RawMediaCreated counters say.
C30_Counters ==
    revision = "counting"
    => /\ hlsEpisodesUpdated <= hlsRawMediaCreated
       /\ hlsRawMediaCreated <= hlsEpisodesFound
       /\ hls265RawMediaCreated <= hls265EpisodesFound
       /\ hls265EpisodesUpdated <= hls265EpisodesFound
       /\ Len(rawMedia) = hlsRawMediaCreated + hls265RawMediaCreated

\* Phase 1 created a record but could not update its episode, so that Phase 2
\* created a second record for it.
C30_Witness ==
    /\ revision = "counting"
    /\ migrationPc = "done"
    /\ hlsRawMediaCreated >= 1
    /\ hlsEpisodesUpdated < hlsRawMediaCreated
    /\ hls265RawMediaCreated >= 1
    /\ hls265EpisodesUpdated >= 1

====
